---- MODULE Spec2Model ----
(***************************************************************************)
(* pkg/conf/conf.go of Cloudreve-rclone: Init(path) materialises the       *)
(* configuration file, parses it, maps and validates the ten sections,     *)
(* adjusts the log level and runs initRCloneBind.                          *)
(*                                                                         *)
(* Text that the bind step takes apart (bind entries, paths) is a          *)
(* sequence of one-character strings; other text is a TLA+ string.         *)
(***************************************************************************)
EXTENDS Integers, Sequences, FiniteSets, TLC

VARIABLES
    pc,               \* position of the process inside Init / initRCloneBind
    path,             \* Init's argument
    fsAtStart,        \* content of the file at path when the process started
    fs,               \* content of the file at path, or NoFile
    fOpen,            \* the handle f of conf.go:118 is open
    cfg,              \* the package variable cfg (parsed document), or NoCfg
    conf,             \* the ten process-wide records, by section name
    mapped,           \* sections whose MapTo returned nil in this run
    validated,        \* sections whose validate.Struct returned nil in this run
    steps,            \* steps of Init that have run in this process
    level,            \* util.Level
    goos,             \* runtime.GOOS
    rcloneCfgExists,  \* util.Exists(RCloneConfig.Config)
    configPath,       \* path registered by rclonefs.SetConfigPath, or <<>>
    bindPoints,       \* the local map bindPoints of initRCloneBind
    idx,              \* position of the range loop over RCloneConfig.Binds
    utilOS,           \* util.OS, the process-wide filesystem abstraction
    warnings          \* what util.Log().Warning has logged in this process

vars == <<pc, path, fsAtStart, fs, fOpen, cfg, conf, mapped, validated, steps, level,
          goos, rcloneCfgExists, configPath, bindPoints, idx, utilOS, warnings>>

\* Longest bind list explored by BindSpec.
MaxBinds == 3

----------------------------------------------------------------------------
(* Text helpers *)

Colon == ":"

Slash == "/"

\* Mutant of SplitN2: cuts at the last colon instead of the first.
RECURSIVE LastIndex(_, _, _)
LastIndex(s, c, k) ==
    IF k = 0 THEN 0
    ELSE IF s[k] = c THEN k
    ELSE LastIndex(s, c, k - 1)

SplitAtLast(s) ==
    LET k == LastIndex(s, ":", Len(s))
    IN  IF k = 0 THEN <<s>>
        ELSE <<SubSeq(s, 1, k - 1), SubSeq(s, k + 1, Len(s))>>

\* strings.SplitN(s, ":", 2): at most two parts, cut at the first colon.
RECURSIVE FirstIndex(_, _, _)
FirstIndex(s, c, k) ==
    IF k > Len(s) THEN 0
    ELSE IF s[k] = c THEN k
    ELSE FirstIndex(s, c, k + 1)

SplitN2(s) ==
    LET k == FirstIndex(s, Colon, 1)
    IN  IF k = 0 THEN <<s>>
        ELSE <<SubSeq(s, 1, k - 1), SubSeq(s, k + 1, Len(s))>>

\* strings.Split(p, "/") as a sequence of components.
RECURSIVE Components(_)
Components(p) ==
    LET k == FirstIndex(p, Slash, 1)
    IN  IF k = 0 THEN <<p>>
        ELSE <<SubSeq(p, 1, k - 1)>> \o Components(SubSeq(p, k + 1, Len(p)))

\* filepath.Clean on a rooted path: empty and "." components vanish, ".."
\* removes the component before it and is dropped at the root.
RECURSIVE CleanStack(_, _)
CleanStack(comps, stack) ==
    IF comps = <<>> THEN stack
    ELSE LET c == Head(comps)
             rest == Tail(comps)
         IN  IF c = <<>> \/ c = <<".">> THEN CleanStack(rest, stack)
             ELSE IF c = <<".", ".">>
                  THEN CleanStack(rest,
                         IF stack = <<>> THEN stack
                         ELSE SubSeq(stack, 1, Len(stack) - 1))
             ELSE CleanStack(rest, Append(stack, c))

RECURSIVE JoinRooted(_)
JoinRooted(stack) ==
    IF stack = <<>> THEN <<>>
    ELSE <<Slash>> \o Head(stack) \o JoinRooted(Tail(stack))

Clean(p) ==
    LET st == CleanStack(Components(p), <<>>)
    IN  IF st = <<>> THEN <<Slash>> ELSE JoinRooted(st)

IsAbs(p) == Len(p) > 0 /\ p[1] = Slash

\* Working directory of the process, used by filepath.Abs for relative paths.
Cwd == <<"/", "w">>

\* filepath.Abs(p): [err, target]; a relative path needs os.Getwd, which the
\* environment may fail (getwdOk).
Abs(p, getwdOk) ==
    IF IsAbs(p) THEN [err |-> FALSE, target |-> Clean(p)]
    ELSE IF ~getwdOk THEN [err |-> TRUE, target |-> <<>>]
    ELSE [err |-> FALSE, target |-> Clean(Cwd \o <<Slash>> \o p)]

----------------------------------------------------------------------------
(* The records and their validation tags *)

Sections ==
    {"Database", "System", "SSL", "UnixSocket", "Captcha",
     "Redis", "Thumbnail", "CORS", "RClone", "Slave"}

\* The sentinel bind entry "UNSET".
UNSET == <<"U", "N", "S", "E", "T">>

\* The process-wide singletons before Init runs (the fields the validation
\* tags and Init read, with the values the package declares for them).
DefaultConf ==
    [s \in Sections |->
       CASE s = "Database"   -> [Type |-> "UNSET", Port |-> 3306, Charset |-> "utf8"]
         [] s = "System"     -> [Mode |-> "master", Listen |-> ":5212", Debug |-> FALSE,
                                 SessionSecret |-> "", HashIDSalt |-> ""]
         [] s = "SSL"        -> [CertPath |-> "", KeyPath |-> "", Listen |-> ":443"]
         [] s = "UnixSocket" -> [Listen |-> ""]
         [] s = "Captcha"    -> [Height |-> 60, Width |-> 240, Mode |-> 3,
                                 ComplexOfNoiseText |-> 0, ComplexOfNoiseDot |-> 0,
                                 CaptchaLen |-> 6]
         [] s = "Redis"      -> [Network |-> "tcp", Server |-> "", Password |-> "", DB |-> "0"]
         [] s = "Thumbnail"  -> [MaxWidth |-> 400, MaxHeight |-> 300, FileSuffix |-> "._thumb"]
         [] s = "CORS"       -> [AllowOrigins |-> <<"UNSET">>, AllowCredentials |-> FALSE]
         [] s = "RClone"     -> [Config |-> "rclone.conf", Binds |-> <<UNSET>>]
         [] s = "Slave"      -> [Secret |-> "", CallbackTimeout |-> 20, SignatureTTL |-> 60]]

\* validate:"eq=master|eq=slave" on Mode, validate:"required" on Listen.
ValidSystem(r) ==
    /\ (r.Mode = "master" \/ r.Mode = "slave")
    /\ r.Listen # ""

\* validate:"omitempty,required" on CertPath and KeyPath (an empty value is
\* skipped, a non-empty one is required to be non-empty), "required" on Listen.
ValidSSL(r) ==
    /\ (r.CertPath = "" \/ r.CertPath # "")
    /\ (r.KeyPath = "" \/ r.KeyPath # "")
    /\ r.Listen # ""

\* validate:"omitempty,gte=64" on Secret (length), "omitempty,gte=1" on the
\* two integers: the zero value is skipped.
ValidSlave(r) ==
    /\ (r.Secret = "" \/ Len(r.Secret) >= 64)
    /\ (r.CallbackTimeout = 0 \/ r.CallbackTimeout >= 1)
    /\ (r.SignatureTTL = 0 \/ r.SignatureTTL >= 1)

\* The range tags of captcha.
ValidCaptcha(r) ==
    /\ r.Height >= 0
    /\ r.Width >= 0
    /\ r.Mode >= 0 /\ r.Mode <= 3
    /\ r.ComplexOfNoiseText >= 0 /\ r.ComplexOfNoiseText <= 2
    /\ r.ComplexOfNoiseDot >= 0 /\ r.ComplexOfNoiseDot <= 2
    /\ r.CaptchaLen > 0

\* validate:"min=1" on FileSuffix.
ValidThumb(r) == Len(r.FileSuffix) >= 1

\* validate.Struct(confStruct) = nil; database, unix, redis, cors and rclone
\* carry no tag.
Valid(s, r) ==
    CASE s = "System"    -> ValidSystem(r)
      [] s = "SSL"       -> ValidSSL(r)
      [] s = "Slave"     -> ValidSlave(r)
      [] s = "Captcha"   -> ValidCaptcha(r)
      [] s = "Thumbnail" -> ValidThumb(r)
      [] OTHER           -> TRUE

\* cfg.Section(section).MapTo(confStruct): the keys the section holds
\* overwrite the fields of the same name, other fields keep their value, keys
\* that name no field are ignored; a section the document lacks is empty.
MapTo(doc, s, r) ==
    IF s \notin DOMAIN doc THEN [err |-> FALSE, rec |-> r]
    ELSE IF doc[s].mapErr THEN [err |-> TRUE, rec |-> r]
    ELSE [err |-> FALSE,
          rec |-> [f \in DOMAIN r |->
                     IF f \in DOMAIN doc[s].kv THEN doc[s].kv[f] ELSE r[f]]]

\* mapSection(section, confStruct): the record after the call and whether
\* each of its two steps succeeded.
mapSection(doc, s, r) ==
    LET m == MapTo(doc, s, r)
    IN  [rec       |-> m.rec,
         mapOk     |-> ~m.err,
         validOk   |-> ~m.err /\ Valid(s, m.rec)]

----------------------------------------------------------------------------
(* Files *)

NoFile == [exists |-> FALSE, syntaxOk |-> FALSE, sections |-> <<>>]

\* A file just created (and truncated) by util.CreatNestedFile.
EmptyFile == [exists |-> TRUE, syntaxOk |-> TRUE, sections |-> <<>>]

\* A file whose text ini.Load rejects (e.g. a prefix of defaultConf that ends
\* inside a section header).
BrokenFile == [exists |-> TRUE, syntaxOk |-> FALSE, sections |-> <<>>]

Sec(kv) == [mapErr |-> FALSE, kv |-> kv]

File(secs) == [exists |-> TRUE, syntaxOk |-> TRUE, sections |-> secs]

\* util.RandStringRunes(64): two of the strings it can return.
RandStrings ==
    {"aAbBcCdDeEfFgGhHiIjJkKlLmMnNoOpPqQrRsStTuUvVwWxXyYzZ0123456789aa",
     "ZzYyXxWwVvUuTtSsRrQqPpOoNnMmLlKkJjIiHhGgFfEeDdCcBbAa9876543210zz"}

\* util.Replace of the two placeholders in defaultConf.
DefaultContent(secret, salt) ==
    File("System" :> Sec([Mode |-> "master", Listen |-> ":5212",
                          SessionSecret |-> secret, HashIDSalt |-> salt]))

\* Bind entries used by the test scenarios of the specification and their
\* neighbours.
EData == <<"/", "d", "a", "t", "a", ":", "r", "e", "m", "o", "t", "e", ":",
           "m", "y", "b", "u", "c", "k", "e", "t">>

EBad == <<"b", "a", "d", "-", "e", "n", "t", "r", "y", "-", "n", "o", "-",
          "c", "o", "l", "o", "n">>

ERoot == <<"/", ":", "r">>

ERel == <<"m", "n", "t", ":", "s", "3", ":", "b">>

EDataSlash == <<"/", "d", "a", "t", "a", "/", ":", "o">>

EUp == <<".", ".", ":", "u">>

EEmptyRemote == <<"/", "m", ":">>

Entries == {UNSET, EData, EBad, ERoot, ERel, EDataSlash, EUp, EEmptyRemote}

\* Non-empty bind lists of at most n entries.
BindLists(n) == UNION {[1..k -> Entries] : k \in 1..n}

RCloneFile(binds) == File("RClone" :> Sec([Binds |-> binds]))

\* Configuration files the runs of Spec start from.
Files ==
    { EmptyFile, BrokenFile,
      File("System" :> Sec([Mode |-> "slave"])),
      File("System" :> Sec([Mode |-> "standalone"])),
      File("System" :> Sec([Debug |-> TRUE, Unknown |-> "x"])),
      File("SSL" :> Sec([CertPath |-> "c.pem", KeyPath |-> "k.pem"])),
      File("Captcha" :> Sec([Mode |-> 4])),
      File("Captcha" :> Sec([Mode |-> 1, Height |-> 120])),
      File("Captcha" :> Sec([CaptchaLen |-> -2])),
      File("Captcha" :> Sec([Height |-> -1])),
      File("Captcha" :> Sec([ComplexOfNoiseDot |-> 3])),
      File("Thumbnail" :> Sec([FileSuffix |-> ".t"])),
      File("Slave" :> Sec([Secret |-> "tooshort"])),
      File("Slave" :> Sec([Secret |-> CHOOSE x \in RandStrings : TRUE,
                           SignatureTTL |-> 0])),
      File("Slave" :> Sec([CallbackTimeout |-> -1])),
      File("Database" :> [mapErr |-> TRUE, kv |-> [Port |-> 0]]),
      File("Database" :> Sec([Type |-> "mysql", Port |-> 3307])),
      File("Redis" :> Sec([Server |-> "127.0.0.1:6379"])),
      File("CORS" :> Sec([AllowOrigins |-> <<"*">>])),
      File("UnixSocket" :> Sec([Listen |-> "/run/c.sock"])),
      RCloneFile(<<EData>>),
      RCloneFile(<<EData, EBad>>),
      RCloneFile(<<ERel, ERoot>>),
      File("System" :> Sec([Debug |-> TRUE]) @@
           "RClone" :> Sec([Config |-> "/etc/rclone.conf", Binds |-> <<EData, EUp>>]) @@
           "Slave"  :> Sec([Secret |-> "tooshort"])),
      File("System" :> Sec([Mode |-> "slave", Debug |-> TRUE]) @@
           "RClone" :> Sec([Binds |-> <<EDataSlash, EData>>]) @@
           "Captcha" :> Sec([Mode |-> 1])) }

----------------------------------------------------------------------------
(* Handles and process-wide state *)

Root == <<"/">>

\* afero.NewOsFs()
OsFs == [kind |-> "OsFs", target |-> <<>>]

\* rclonefs.NewRCloneFs(target)
RCloneFs(target) == [kind |-> "RCloneFs", target |-> target]

\* util.OS before Init: the plain local filesystem.
DefaultOS == [kind |-> "OsFs", table |-> <<>>]

\* rclonefs.NewBindPathFs(bindPoints)
BindPathFs(table) == [kind |-> "BindPathFs", table |-> table]

NoCfg == [loaded |-> FALSE, sections |-> <<>>]

Warn(kind, k) == [kind |-> kind, idx |-> k]

Binds == conf["RClone"].Binds

\* A process that has not yet entered Init, on a machine whose file at p is f.
Fresh(p, f, os, rc) ==
    /\ pc = "Start"
    /\ path = p
    /\ fsAtStart = f
    /\ fs = f
    /\ fOpen = FALSE
    /\ cfg = NoCfg
    /\ conf = DefaultConf
    /\ mapped = {}
    /\ validated = {}
    /\ steps = {}
    /\ level = "Debug"
    /\ goos = os
    /\ rcloneCfgExists = rc
    /\ configPath = ""
    /\ bindPoints = <<>>
    /\ idx = 0
    /\ utilOS = DefaultOS
    /\ warnings = {}

Platforms == {"linux", "windows"}

Init ==
    \E p \in {"", "conf.ini"}, f \in Files \cup {NoFile},
       os \in Platforms, rc \in BOOLEAN :
        /\ (p = "" => f = NoFile)
        /\ Fresh(p, f, os, rc)

\* util.Log().Panic: the process ends here.
Panic ==
    pc' = "Aborted"

----------------------------------------------------------------------------
(* Init, conf.go:109-164 *)

\* Mutant of CreateFile: creates the file whether or not one exists.
CreateFileAlways ==
    /\ pc = "Start"
    /\ \E ok \in BOOLEAN :
         IF ok /\ path # ""
         THEN /\ fs' = EmptyFile
              /\ fOpen' = TRUE
              /\ pc' = "Write"
         ELSE /\ Panic
              /\ UNCHANGED <<fs, fOpen>>
    /\ UNCHANGED <<path, fsAtStart, cfg, conf, mapped, validated, steps, level, goos,
                   rcloneCfgExists, configPath, bindPoints, idx, utilOS, warnings>>

\* conf.go:112 true, conf.go:118-121: util.CreatNestedFile(path).  Creating
\* the empty path fails; any other creation may fail.
CreateFile ==
    /\ pc = "Start"
    /\ path = "" \/ ~fs.exists
    /\ \E ok \in BOOLEAN :
         IF ok /\ path # ""
         THEN /\ fs' = EmptyFile
              /\ fOpen' = TRUE
              /\ pc' = "Write"
         ELSE /\ Panic
              /\ UNCHANGED <<fs, fOpen>>
    /\ UNCHANGED <<path, fsAtStart, cfg, conf, mapped, validated, steps, level, goos,
                   rcloneCfgExists, configPath, bindPoints, idx, utilOS, warnings>>

\* conf.go:124-127: f.WriteString(confContent).  A failed write leaves the
\* file empty or with a prefix of the content.
WriteFile ==
    /\ pc = "Write"
    /\ \/ \E secret \in RandStrings, salt \in RandStrings :
            /\ fs' = DefaultContent(secret, salt)
            /\ pc' = "Close"
       \/ /\ fs' \in {EmptyFile, BrokenFile}
          /\ Panic
    /\ UNCHANGED <<path, fsAtStart, fOpen, cfg, conf, mapped, validated, steps, level, goos,
                   rcloneCfgExists, configPath, bindPoints, idx, utilOS, warnings>>

\* conf.go:129: f.Close()
CloseFile ==
    /\ pc = "Close"
    /\ fOpen' = FALSE
    /\ steps' = steps \cup {"file"}
    /\ pc' = "Load"
    /\ UNCHANGED <<path, fsAtStart, fs, cfg, conf, mapped, validated, level, goos,
                   rcloneCfgExists, configPath, bindPoints, idx, utilOS, warnings>>

\* conf.go:112 false: a file exists at a non-empty path.
KeepFile ==
    /\ pc = "Start"
    /\ ~(path = "" \/ ~fs.exists)
    /\ steps' = steps \cup {"file"}
    /\ pc' = "Load"
    /\ UNCHANGED <<path, fsAtStart, fs, fOpen, cfg, conf, mapped, validated, level, goos,
                   rcloneCfgExists, configPath, bindPoints, idx, utilOS, warnings>>

\* conf.go:132-135: cfg, err = ini.Load(path)
LoadFile ==
    /\ pc = "Load"
    /\ IF fs.exists /\ fs.syntaxOk
       THEN /\ cfg' = [loaded |-> TRUE, sections |-> fs.sections]
            /\ steps' = steps \cup {"parse"}
            /\ pc' = "Sections"
       ELSE /\ Panic
            /\ UNCHANGED <<cfg, steps>>
    /\ UNCHANGED <<path, fsAtStart, fs, fOpen, conf, mapped, validated, level, goos,
                   rcloneCfgExists, configPath, bindPoints, idx, utilOS, warnings>>

\* Mutant of MapSectionStep: the result of validate.Struct is dropped.
MapSectionStepNoValidate ==
    /\ pc = "Sections"
    /\ \E s \in Sections \ mapped :
         LET r == mapSection(cfg.sections, s, conf[s])
         IN  /\ conf' = [conf EXCEPT ![s] = r.rec]
             /\ mapped' = IF r.mapOk THEN mapped \cup {s} ELSE mapped
             /\ validated' = IF r.validOk THEN validated \cup {s} ELSE validated
             /\ IF r.mapOk
                THEN pc' = "Sections"
                ELSE Panic
    /\ UNCHANGED <<path, fsAtStart, fs, fOpen, cfg, steps, level, goos,
                   rcloneCfgExists, configPath, bindPoints, idx, utilOS, warnings>>

\* conf.go:149-154: one iteration of the range over the map sections (Go
\* visits the keys in an unspecified order): mapSection, Panic on an error.
MapSectionStep ==
    /\ pc = "Sections"
    /\ \E s \in Sections \ mapped :
         LET r == mapSection(cfg.sections, s, conf[s])
         IN  /\ conf' = [conf EXCEPT ![s] = r.rec]
             /\ mapped' = IF r.mapOk THEN mapped \cup {s} ELSE mapped
             /\ validated' = IF r.validOk THEN validated \cup {s} ELSE validated
             /\ IF r.mapOk /\ r.validOk
                THEN pc' = "Sections"
                ELSE Panic
    /\ UNCHANGED <<path, fsAtStart, fs, fOpen, cfg, steps, level, goos,
                   rcloneCfgExists, configPath, bindPoints, idx, utilOS, warnings>>

\* Mutant of LogLevelStep: runs inside the loop, before every key is visited.
LogLevelStepEarly ==
    /\ pc = "Sections"
    /\ level' = IF ~conf["System"].Debug THEN "Informational" ELSE level
    /\ steps' = steps \cup {"log"}
    /\ pc' = "Bind"
    /\ UNCHANGED <<path, fsAtStart, fs, fOpen, cfg, conf, mapped, validated, goos,
                   rcloneCfgExists, configPath, bindPoints, idx, utilOS, warnings>>

\* conf.go:156-161, after the loop has visited every key.
LogLevelStep ==
    /\ pc = "Sections"
    /\ mapped = Sections
    /\ level' = IF ~conf["System"].Debug THEN "Informational" ELSE level
    /\ steps' = steps \cup {"log"}
    /\ pc' = "Bind"
    /\ UNCHANGED <<path, fsAtStart, fs, fOpen, cfg, conf, mapped, validated, goos,
                   rcloneCfgExists, configPath, bindPoints, idx, utilOS, warnings>>

----------------------------------------------------------------------------
(* initRCloneBind, conf.go:184-219 *)

BindFrame == <<path, fsAtStart, fs, fOpen, cfg, conf, mapped, validated, level, goos,
               rcloneCfgExists>>

\* conf.go:185-188: any platform but linux: warn and return.
BindUnsupportedOS ==
    /\ pc = "Bind"
    /\ goos # "linux"
    /\ warnings' = warnings \cup {Warn("os", 0)}
    /\ steps' = steps \cup {"bind"}
    /\ pc' = "Ready"
    /\ UNCHANGED <<BindFrame, configPath, bindPoints, idx, utilOS>>

\* conf.go:190-192: RCloneConfig.Binds[0] == "UNSET": return.  Indexing an
\* empty list is a run-time panic.
BindUnset ==
    /\ pc = "Bind"
    /\ goos = "linux"
    /\ Len(Binds) = 0 \/ Binds[1] = UNSET
    /\ steps' = steps \cup {"bind"}
    /\ IF Len(Binds) = 0 THEN Panic ELSE pc' = "Ready"
    /\ UNCHANGED <<BindFrame, configPath, bindPoints, idx, utilOS, warnings>>

\* conf.go:194, 196-199: the remote config file is missing: warn and return.
BindNoConfig ==
    /\ pc = "Bind"
    /\ goos = "linux"
    /\ Len(Binds) > 0 /\ Binds[1] # UNSET
    /\ ~rcloneCfgExists
    /\ warnings' = warnings \cup {Warn("noconfig", 0)}
    /\ steps' = steps \cup {"bind"}
    /\ pc' = "Ready"
    /\ UNCHANGED <<BindFrame, configPath, bindPoints, idx, utilOS>>

\* Mutant of BindBegin: the sentinel is not looked at.
BindBeginNoSentinel ==
    /\ pc = "Bind"
    /\ goos = "linux"
    /\ Len(Binds) > 0
    /\ rcloneCfgExists
    /\ configPath' = conf["RClone"].Config
    /\ bindPoints' = (Root :> OsFs)
    /\ idx' = 1
    /\ steps' = steps \cup {"bind"}
    /\ pc' = "BindLoop"
    /\ UNCHANGED <<BindFrame, utilOS, warnings>>

\* conf.go:194-195, 201-202: register the config path, start the table with
\* the local filesystem at "/".
BindBegin ==
    /\ pc = "Bind"
    /\ goos = "linux"
    /\ Len(Binds) > 0 /\ Binds[1] # UNSET
    /\ rcloneCfgExists
    /\ configPath' = conf["RClone"].Config
    /\ bindPoints' = (Root :> OsFs)
    /\ idx' = 1
    /\ steps' = steps \cup {"bind"}
    /\ pc' = "BindLoop"
    /\ UNCHANGED <<BindFrame, utilOS, warnings>>

\* bindPoints[target] = h
Put(table, target, h) ==
    [k \in DOMAIN table \cup {target} |-> IF k = target THEN h ELSE table[k]]

\* Mutant of BindWellFormed: an unresolvable path ends the step like a
\* malformed entry does.
BindWellFormedAbort ==
    /\ pc = "BindLoop"
    /\ idx <= Len(Binds)
    /\ Len(SplitN2(Binds[idx])) = 2
    /\ \E getwdOk \in BOOLEAN, bind \in {SplitN2(Binds[idx])} :
         \E a \in {Abs(bind[1], getwdOk)} :
             IF ~a.err
             THEN /\ bindPoints' = Put(bindPoints, a.target, RCloneFs(bind[2]))
                  /\ idx' = idx + 1
                  /\ pc' = "BindLoop"
                  /\ UNCHANGED warnings
             ELSE /\ warnings' = warnings \cup {Warn("abs", idx)}
                  /\ pc' = "Ready"
                  /\ UNCHANGED <<bindPoints, idx>>
    /\ UNCHANGED <<BindFrame, steps, configPath, utilOS>>

\* conf.go:205-211: an entry that splits in two: bind its absolute local
\* path, or warn when the path does not resolve; then the next entry.
BindWellFormed ==
    /\ pc = "BindLoop"
    /\ idx <= Len(Binds)
    /\ Len(SplitN2(Binds[idx])) = 2
    /\ \E getwdOk \in BOOLEAN, bind \in {SplitN2(Binds[idx])} :
         \E a \in {Abs(bind[1], getwdOk)} :
             IF ~a.err
             THEN /\ bindPoints' = Put(bindPoints, a.target, RCloneFs(bind[2]))
                  /\ UNCHANGED warnings
             ELSE /\ warnings' = warnings \cup {Warn("abs", idx)}
                  /\ UNCHANGED bindPoints
    /\ idx' = idx + 1
    /\ pc' = "BindLoop"
    /\ UNCHANGED <<BindFrame, steps, configPath, utilOS>>

\* Mutant of BindMalformed: the malformed entry is skipped and the loop goes on.
BindMalformedSkip ==
    /\ pc = "BindLoop"
    /\ idx <= Len(Binds)
    /\ Len(SplitN2(Binds[idx])) # 2
    /\ warnings' = warnings \cup {Warn("malformed", idx)}
    /\ idx' = idx + 1
    /\ pc' = "BindLoop"
    /\ UNCHANGED <<BindFrame, steps, configPath, bindPoints, utilOS>>

\* Mutant of BindMalformed: the malformed entry is reported with Panic.
BindMalformedFatal ==
    /\ pc = "BindLoop"
    /\ idx <= Len(Binds)
    /\ Len(SplitN2(Binds[idx])) # 2
    /\ warnings' = warnings \cup {Warn("malformed", idx)}
    /\ Panic
    /\ UNCHANGED <<BindFrame, steps, configPath, bindPoints, idx, utilOS>>

\* conf.go:212-215: an entry that does not split in two: warn and return.
BindMalformed ==
    /\ pc = "BindLoop"
    /\ idx <= Len(Binds)
    /\ Len(SplitN2(Binds[idx])) # 2
    /\ warnings' = warnings \cup {Warn("malformed", idx)}
    /\ pc' = "Ready"
    /\ UNCHANGED <<BindFrame, steps, configPath, bindPoints, idx, utilOS>>

\* conf.go:218: the loop is over: install the table.
BindInstall ==
    /\ pc = "BindLoop"
    /\ idx > Len(Binds)
    /\ utilOS' = BindPathFs(bindPoints)
    /\ pc' = "Ready"
    /\ UNCHANGED <<BindFrame, steps, configPath, bindPoints, idx, warnings>>

BindStep ==
    \/ BindUnsupportedOS
    \/ BindUnset
    \/ BindNoConfig
    \/ BindBegin
    \/ BindWellFormed
    \/ BindMalformed
    \/ BindInstall

----------------------------------------------------------------------------
(* Specifications *)

\* The process has ended (Init returned or the process was terminated); the
\* program is started again on the same machine: the file stays, nothing of
\* the old process does.
Restart ==
    /\ pc \in {"Ready", "Aborted"}
    /\ pc' = "Start"
    /\ fOpen' = FALSE
    /\ cfg' = NoCfg
    /\ conf' = DefaultConf
    /\ mapped' = {}
    /\ validated' = {}
    /\ steps' = {}
    /\ level' = "Debug"
    /\ configPath' = ""
    /\ bindPoints' = <<>>
    /\ idx' = 0
    /\ utilOS' = DefaultOS
    /\ warnings' = {}
    /\ fsAtStart' = fs
    /\ UNCHANGED <<path, fs, goos, rcloneCfgExists>>

InitStep ==
    \/ CreateFile
    \/ WriteFile
    \/ CloseFile
    \/ KeepFile
    \/ LoadFile
    \/ MapSectionStep
    \/ LogLevelStep

Next ==
    \/ InitStep
    \/ BindStep
    \/ Restart

Spec == Init /\ [][Next]_vars

\* The processes that have reached initRCloneBind with a configuration file
\* whose RClone section holds the bind list b and whose other sections are
\* absent.
BindInit ==
    \E b \in BindLists(MaxBinds), os \in Platforms, rc \in BOOLEAN :
        /\ pc = "Bind"
        /\ path = "conf.ini"
        /\ fsAtStart = RCloneFile(b)
        /\ fs = RCloneFile(b)
        /\ fOpen = FALSE
        /\ cfg = [loaded |-> TRUE, sections |-> RCloneFile(b).sections]
        /\ conf = [DefaultConf EXCEPT !["RClone"].Binds = b]
        /\ mapped = Sections
        /\ validated = Sections
        /\ steps = {"file", "parse", "log"}
        /\ level = "Informational"
        /\ goos = os
        /\ rcloneCfgExists = rc
        /\ configPath = ""
        /\ bindPoints = <<>>
        /\ idx = 0
        /\ utilOS = DefaultOS
        /\ warnings = {}

BindNext == BindStep

BindSpec == BindInit /\ [][BindNext]_vars

\* Init runs to completion on its own thread: a step that is possible is
\* eventually taken.
FairBindSpec == BindSpec /\ WF_vars(BindNext)

----------------------------------------------------------------------------
(* Vocabulary of the properties, stated without the operators of the model *)

NoColon(e) == \A k \in 1..Len(e) : e[k] # ":"

FirstColon(e) == CHOOSE k \in 1..Len(e) : e[k] = ":" /\ \A j \in 1..(k - 1) : e[j] # ":"

\* The text before the first colon and all the text after it.
LocalPart(e) == [k \in 1..(FirstColon(e) - 1) |-> e[k]]

RemotePart(e) == [k \in 1..(Len(e) - FirstColon(e)) |-> e[FirstColon(e) + k]]

\* Entry k was reported as unresolvable.
Skipped(k) == Warn("abs", k) \in warnings

\* The absolute form of the local part of entry k.
Target(k) == Abs(LocalPart(Binds[k]), TRUE).target

AllSections == mapped = Sections /\ validated = Sections

BindEnabled ==
    /\ goos = "linux"
    /\ rcloneCfgExists
    /\ Len(Binds) > 0
    /\ Binds[1] # UNSET

AllWellFormed == \A k \in 1..Len(Binds) : ~NoColon(Binds[k])

Installed == utilOS.kind = "BindPathFs"

----------------------------------------------------------------------------
(* C1 *)

StepOrder ==
    /\ "parse" \in steps => "file" \in steps
    /\ (mapped # {} \/ validated # {}) => "parse" \in steps
    /\ "log" \in steps => AllSections
    /\ "bind" \in steps => "log" \in steps
    /\ pc = "Ready" => steps = {"file", "parse", "log", "bind"}

AbortedIsFinal ==
    pc = "Aborted" =>
        \/ /\ pc' = "Aborted"
           /\ UNCHANGED <<steps, mapped, validated, level, utilOS, conf>>
        \/ /\ pc' = "Start"
           /\ steps' = {}
           /\ mapped' = {}

\* C1: in every run of Init the file is ready before it is parsed, it is
\* parsed before any section is mapped, the logging-level step runs only
\* after all ten sections are mapped and validated, the bind step only after
\* the logging-level step, Ready only after all four; and the only thing
\* that follows Aborted is a new process that starts from nothing.
C1_StepOrder == [](StepOrder) /\ [][AbortedIsFinal]_vars

C1_Witness ==
    /\ pc = "Ready"
    /\ steps = {"file", "parse", "log", "bind"}
    /\ AllSections
    /\ level = "Informational"
    /\ Installed

----------------------------------------------------------------------------
(* C2 *)

\* Section s of the parsed document cannot be mapped, or maps to a record
\* that breaks a constraint.
SectionFails(s) ==
    /\ s \in DOMAIN cfg.sections
    /\ \/ cfg.sections[s].mapErr
       \/ ~Valid(s, [f \in DOMAIN DefaultConf[s] |->
                       IF f \in DOMAIN cfg.sections[s].kv
                       THEN cfg.sections[s].kv[f]
                       ELSE DefaultConf[s][f]])

\* C2: when Init reaches Ready every one of the ten records satisfies its
\* constraints and no section of the document failed; a run in which a
\* section was mapped but did not validate is Aborted, whatever the order.
C2_AllOrNothing ==
    /\ pc = "Ready" =>
         /\ \A s \in Sections : Valid(s, conf[s])
         /\ \A s \in Sections : ~SectionFails(s)
    /\ mapped # validated => pc = "Aborted"
    /\ (pc \in {"Bind", "BindLoop", "Ready"}) => AllSections

C2_Witness ==
    /\ pc = "Aborted"
    /\ Cardinality(validated) >= 2
    /\ \E s \in Sections : s \in mapped /\ s \notin validated /\ ~Valid(s, conf[s])

----------------------------------------------------------------------------
(* C3 *)

\* C3: on linux, with the remote config file present and a first entry
\* other than "UNSET", a bind list with an entry without a colon at any
\* position leaves util.OS as it was before the step.
C3_MalformedCancelsAll ==
    (pc = "Ready" /\ BindEnabled /\ \E k \in 1..Len(Binds) : NoColon(Binds[k]))
        => utilOS = DefaultOS

C3_Witness ==
    /\ pc = "Ready"
    /\ BindEnabled
    /\ Len(Binds) = 3
    /\ ~NoColon(Binds[1]) /\ ~NoColon(Binds[2]) /\ NoColon(Binds[3])
    /\ Warn("malformed", 3) \in warnings
    /\ Cardinality(DOMAIN bindPoints) = 3
    /\ utilOS = DefaultOS

----------------------------------------------------------------------------
(* C4 *)

\* C4: with the bind list <<"UNSET">> the bind step registers no remote
\* config path, builds no table and leaves util.OS the default local
\* filesystem, on every platform and whether or not the remote config file
\* exists.
C4_UnsetDisables ==
    Binds = <<UNSET>> =>
        /\ configPath = ""
        /\ bindPoints = <<>>
        /\ utilOS = DefaultOS
        /\ pc \in {"Bind", "Ready"}

C4_Witness ==
    /\ Binds = <<UNSET>>
    /\ pc = "Ready"
    /\ goos = "linux"
    /\ rcloneCfgExists
    /\ "bind" \in steps

----------------------------------------------------------------------------
(* C5 *)

\* C5: when a file exists at a non-empty path as the process starts, its
\* content stays what it was at every point of Init, in every run.
C5_ExistingFileUntouched ==
    (fsAtStart.exists /\ path # "") => (fs = fsAtStart /\ ~fOpen)

\* A later run over the file an earlier run created: the secrets read are
\* the ones generated then.
C5_Witness ==
    /\ pc = "Ready"
    /\ \E a \in RandStrings, b \in RandStrings :
         /\ a # b
         /\ fsAtStart = DefaultContent(a, b)
         /\ conf["System"].SessionSecret = a
         /\ conf["System"].HashIDSalt = b
    /\ fs = fsAtStart

----------------------------------------------------------------------------
(* C6 *)

DataPath == <<"/", "d", "a", "t", "a">>

RemoteMyBucket ==
    <<"r", "e", "m", "o", "t", "e", ":", "m", "y", "b", "u", "c", "k", "e", "t">>

\* The bind step ran over well-formed entries that all resolved, to paths
\* that are distinct and are not "/".
DistinctTargets ==
    /\ AllWellFormed
    /\ \A k \in 1..Len(Binds) : ~Skipped(k) /\ Target(k) # Root
    /\ \A j, k \in 1..Len(Binds) : j # k => Target(j) # Target(k)

\* C6: on linux with the remote config file present, n well-formed entries
\* resolving to n distinct paths other than "/" install a table of exactly
\* n+1 entries: "/" -> local, and per entry the absolute form of the text
\* before its first colon -> a remote handle made from all the text after
\* it; <<"/data:remote:mybucket">> installs "/" -> local and
\* "/data" -> remote("remote:mybucket").
C6_TableContents ==
    (pc = "Ready" /\ BindEnabled /\ DistinctTargets) =>
        /\ Installed
        /\ Cardinality(DOMAIN utilOS.table) = Len(Binds) + 1
        /\ DOMAIN utilOS.table = {Root} \cup {Target(k) : k \in 1..Len(Binds)}
        /\ utilOS.table[Root] = OsFs
        /\ \A k \in 1..Len(Binds) :
             utilOS.table[Target(k)] = RCloneFs(RemotePart(Binds[k]))
        /\ Binds = <<EData>> =>
             utilOS.table = (Root :> OsFs) @@ (DataPath :> RCloneFs(RemoteMyBucket))

C6_Witness ==
    /\ pc = "Ready"
    /\ BindEnabled
    /\ DistinctTargets
    /\ Len(Binds) = 3
    /\ Binds[1] = EData
    /\ Cardinality(DOMAIN utilOS.table) = 4

----------------------------------------------------------------------------
(* C7 *)

BindOnlyWarns ==
    AllSections =>
        /\ pc # "Aborted"
        /\ pc = "BindLoop" => idx \in 1..(Len(Binds) + 1)
        /\ \A w \in warnings : w.kind \in {"os", "noconfig", "malformed", "abs"}
        /\ (pc = "Ready" /\ goos # "linux") => Warn("os", 0) \in warnings
        /\ (pc = "Ready" /\ goos = "linux" /\ Binds[1] # UNSET /\ ~rcloneCfgExists)
              => Warn("noconfig", 0) \in warnings
        /\ (pc = "Ready" /\ BindEnabled /\ ~Installed)
              => \E k \in 1..Len(Binds) : Warn("malformed", k) \in warnings

\* C7: once all ten sections are mapped and validated the run is never
\* Aborted and reaches Ready, on every platform, for every bind list and
\* whether or not the remote config file exists; an unsupported platform, a
\* missing remote config file and a malformed entry each end in Ready with
\* their warning logged, and only warnings of the four kinds are logged.
C7_BindNeverFatal == [](BindOnlyWarns) /\ (AllSections ~> (pc = "Ready"))

C7_Witness ==
    /\ pc = "Ready"
    /\ AllSections
    /\ BindEnabled
    /\ Skipped(1)
    /\ Warn("malformed", 2) \in warnings

----------------------------------------------------------------------------
(* C8 *)

\* C8: no run ends, Ready or Aborted, with the handle acquired at
\* conf.go:118 still open.
C8_HandleClosedAtEnd == pc \in {"Ready", "Aborted"} => ~fOpen

----------------------------------------------------------------------------
(* C9 *)

\* C9: in a bind step over well-formed entries, an entry whose local part
\* does not resolve is skipped alone: the table installed at the end holds
\* "/" and the target of every entry that was not skipped, each bound to the
\* remote of the last such entry that names it or, for "/" with no such
\* entry, to the local filesystem.
C9_UnresolvableSkippedAlone ==
    (pc = "Ready" /\ BindEnabled /\ AllWellFormed
       /\ \E k \in 1..Len(Binds) : Skipped(k)) =>
        /\ Installed
        /\ idx = Len(Binds) + 1
        /\ DOMAIN utilOS.table =
             {Root} \cup {Target(k) : k \in {j \in 1..Len(Binds) : ~Skipped(j)}}
        /\ \A k \in 1..Len(Binds) :
             (~Skipped(k) /\ \A j \in (k + 1)..Len(Binds) :
                               Skipped(j) \/ Target(j) # Target(k))
                => utilOS.table[Target(k)] = RCloneFs(RemotePart(Binds[k]))

C9_Witness ==
    /\ pc = "Ready"
    /\ BindEnabled
    /\ AllWellFormed
    /\ Len(Binds) = 3
    /\ ~Skipped(1) /\ Skipped(2) /\ ~Skipped(3)
    /\ Installed
    /\ Cardinality(DOMAIN utilOS.table) = 3

----------------------------------------------------------------------------
(* C10 *)

\* C10: every table the bind step installs maps "/" to the local filesystem
\* handle.
C10_RootIsLocal == Installed => utilOS.table[Root] = OsFs

====
